---- MODULE Spec2Model ----
(***************************************************************************)
(* Model of job_hunter.py: the history store (load_history, save_history), *)
(* the search loop (find_jobs), the page analyzer (analyze_job), the       *)
(* emailer (send_email) and the orchestrator (main), run repeatedly        *)
(* against one history file.                                               *)
(*                                                                         *)
(* The external services are the inputs: each search query either raises   *)
(* or returns result URLs, each page fetch either fails or returns a page  *)
(* text, the mail credentials are present or absent, and the SMTP          *)
(* transmission succeeds or fails.  Writes of local files (the report, the *)
(* history) are taken to succeed.                                          *)
(***************************************************************************)
EXTENDS Naturals, Integers, Sequences, FiniteSets, TLC

\* ------------------------------------------------------------------ bounds
MaxUrls == 2
MaxRuns == 2
MaxTextLen == 2

\* ------------------------------------------------------- program constants
NumRoles == 5
NumSites == 4
max_results_per_query == 10
CoreWeight == 2

URLs == 1..MaxUrls
NumQueries == NumRoles * NumSites

\* ----------------------------------------------------------- small helpers
Range(s) == {s[i] : i \in 1..Len(s)}

RECURSIVE SetToSeqs(_)
\* every duplicate-free listing of a set: the orders list(set) can produce
SetToSeqs(S) ==
    IF S = {} THEN {<<>>}
    ELSE UNION {{<<x>> \o t : t \in SetToSeqs(S \ {x})} : x \in S}

RECURSIVE SeqsUpTo(_, _)
SeqsUpTo(A, n) ==
    IF n = 0 THEN {<<>>}
    ELSE LET shorter == SeqsUpTo(A, n - 1)
         IN  shorter \cup {<<a>> \o t : a \in A, t \in {u \in shorter : Len(u) = n - 1}}

\* ------------------------------------------------------------ page texts
\* A page text is a short sequence of characters; "G" is an upper-case
\* letter that lower() folds to "g".
Alphabet == {"g", "G", "t", "w", "s"}
Texts == SeqsUpTo(Alphabet, MaxTextLen)

Lower(text) == [i \in 1..Len(text) |-> IF text[i] = "G" THEN "g" ELSE text[i]]

\* --------------------------------------------------------------- CONFIG
\* The rubric, scaled to the alphabet: labels in dictionary order, each
\* with its synonyms; the warning keywords in list order; stale keywords.
\* Chars spells a keyword out.
CoreLabels == <<"GCP", "Terraform">>
core_skills == ("GCP" :> {"g"}) @@ ("Terraform" :> {"t", "wg"})
warning_skills == <<"w">>
stale_keywords == {"s"}
Chars ==
    ("g" :> <<"g">>) @@ ("t" :> <<"t">>) @@ ("wg" :> <<"w", "g">>)
    @@ ("w" :> <<"w">>) @@ ("s" :> <<"s">>)
\* the ways a configuration could ask for warnings to be treated
WarningPolicies == {"tag_only", "penalize"}

\* Python's `k in text` on strings: k occurs as a contiguous substring
Contains(text, k) ==
    \E i \in 0..(Len(text) - Len(Chars[k])) :
        \A j \in 1..Len(Chars[k]) : text[i + j] = Chars[k][j]

\* ", ".join(items): the items with the separator between neighbours
RECURSIVE Join(_, _)
Join(sep, items) ==
    IF Len(items) = 0 THEN <<>>
    ELSE IF Len(items) = 1 THEN <<items[1]>>
    ELSE <<items[1], sep>> \o Join(sep, Tail(items))

\* the items of a joined string (the inverse of Join for items without sep)
Items(joined, sep) == {joined[i] : i \in {j \in 1..Len(joined) : joined[j] # sep}}

\* ------------------------------------------------------------ load/save
\* The history file is absent, unparsable, or a JSON array of URLs.  The
\* array is kept as the set of its elements: save_history writes a set in
\* some order and load_history reads the array back through set().
FileStates ==
    {[kind |-> "absent", urls |-> {}], [kind |-> "corrupt", urls |-> {}]}
    \cup {[kind |-> "json", urls |-> S] : S \in SUBSET URLs}

\* what the first run finds: no file yet
InitialFiles == {f \in FileStates : f.kind = "absent"}

load_history(file) ==
    IF file.kind = "json" THEN file.urls ELSE {}

save_history(history_set) == [kind |-> "json", urls |-> history_set]

\* ------------------------------------------------------------ analyze_job
\* A fetch raises ("error"), answers with a status other than 200
\* ("status"), or answers 200 with a page text ("page").
Responses ==
    {[kind |-> "error", text |-> <<>>], [kind |-> "status", text |-> <<>>]}
    \cup {[kind |-> "page", text |-> t] : t \in Texts}

IsStale(text) == \E k \in stale_keywords : Contains(text, k)

Matched(text, label) == \E k \in core_skills[label] : Contains(text, k)

\* the loop over core_skills: score, matches and missing after the first n labels
RECURSIVE ScoreCore(_, _)
ScoreCore(text, n) ==
    IF n = 0 THEN [score |-> 0, matches |-> <<>>, missing |-> <<>>]
    ELSE LET acc == ScoreCore(text, n - 1)
             label == CoreLabels[n]
         IN  IF Matched(text, label)
             THEN [acc EXCEPT !.score = @ + CoreWeight, !.matches = Append(@, label)]
             ELSE [acc EXCEPT !.missing = Append(@, label)]

\* the warning loop of a penalising rubric: 5 points off per warning found
ScoreWarningsPenalize(text, acc) ==
    LET found == SelectSeq(warning_skills, LAMBDA bad : Contains(text, bad))
    IN  [score |-> acc.score - 5 * Len(found), warnings |-> found]

\* the loop over warning_skills: tagging only, the score is not touched
ScoreWarnings(text, acc) ==
    [score |-> acc.score,
     warnings |-> SelectSeq(warning_skills, LAMBDA bad : Contains(text, bad))]

\* The record of a page (Company, Job Title and Location, which no scoring
\* or reporting decision reads, are left out).
JobRecord(url, text) ==
    LET core == ScoreCore(text, Len(CoreLabels))
        warn == ScoreWarnings(text, core)
    IN  ("Match Score" :> warn.score)
        @@ ("Why? (Matches)" :> Join(", ", core.matches))
        @@ ("Warnings" :> Join(", ", warn.warnings))
        @@ ("Missing Keywords" :> Join(", ", core.missing))
        @@ ("URL" :> url)

\* analyze_job without the staleness check
analyze_job_no_stale_check(url, resp) ==
    IF resp.kind # "page" THEN [raised |-> FALSE, data |-> <<>>]
    ELSE [raised |-> FALSE, data |-> <<JobRecord(url, Lower(resp.text))>>]

\* analyze_job without the try/except: a failing fetch raises out of it
analyze_job_unguarded(url, resp) ==
    IF resp.kind = "error" THEN [raised |-> TRUE, data |-> <<>>]
    ELSE IF resp.kind = "status" THEN [raised |-> FALSE, data |-> <<>>]
    ELSE IF IsStale(Lower(resp.text)) THEN [raised |-> FALSE, data |-> <<>>]
    ELSE [raised |-> FALSE, data |-> <<JobRecord(url, Lower(resp.text))>>]

\* data is <<>> for None and <<record>> for a record; raised tells whether
\* an exception left the function.
analyze_job(url, resp) ==
    IF resp.kind = "error" THEN [raised |-> FALSE, data |-> <<>>]
    ELSE IF resp.kind = "status" THEN [raised |-> FALSE, data |-> <<>>]
    ELSE LET text == Lower(resp.text)
         IN  IF IsStale(text) THEN [raised |-> FALSE, data |-> <<>>]
             ELSE [raised |-> FALSE, data |-> <<JobRecord(url, text)>>]

\* Two page texts with the same staleness and the same scoring lead main()
\* to the same state, so the orchestrator is run on one text of each kind.
SameAnalysis(t1, t2) ==
    /\ IsStale(Lower(t1)) = IsStale(Lower(t2))
    /\ JobRecord(1, Lower(t1)) = JobRecord(1, Lower(t2))
PageKinds == {CHOOSE t2 \in Texts : SameAnalysis(t, t2) : t \in Texts}

\* ------------------------------------------------------------- send_email
\* the three environment variables, each set or not
Envs == [sender : BOOLEAN, password : BOOLEAN, recipient : BOOLEAN]

\* send_email with the SMTP exchange outside any try/except
send_email_unguarded(env, smtp_ok) ==
    IF ~env.sender \/ ~env.password THEN "skipped"
    ELSE IF smtp_ok /\ env.recipient THEN "sent"
    ELSE "raised"

\* "skipped": credentials missing, nothing attempted; "sent"; "failed": the
\* SMTP exchange raised and the exception was caught; "raised": an
\* exception left the function.
send_email(env, smtp_ok) ==
    IF ~env.sender \/ ~env.password THEN "skipped"
    ELSE IF smtp_ok /\ env.recipient THEN "sent"
    ELSE "failed"

\* -------------------------------------------------------------------- main
\* an ascending stable sort read backwards: descending, but ties reversed
RECURSIVE InsertDescTiesFirst(_, _)
InsertDescTiesFirst(sorted, x) ==
    IF sorted = <<>> THEN <<x>>
    ELSE IF Head(sorted)["Match Score"] > x["Match Score"]
         THEN <<Head(sorted)>> \o InsertDescTiesFirst(Tail(sorted), x)
         ELSE <<x>> \o sorted

\* list.sort(key=score, reverse=True): stable, descending
RECURSIVE InsertDesc(_, _)
InsertDesc(sorted, x) ==
    IF sorted = <<>> THEN <<x>>
    ELSE IF Head(sorted)["Match Score"] >= x["Match Score"]
         THEN <<Head(sorted)>> \o InsertDesc(Tail(sorted), x)
         ELSE <<x>> \o sorted

RECURSIVE SortByScoreDesc(_)
SortByScoreDesc(jobs) ==
    IF jobs = <<>> THEN <<>>
    ELSE InsertDesc(SortByScoreDesc(SubSeq(jobs, 1, Len(jobs) - 1)), jobs[Len(jobs)])

\* csv.DictWriter row: the values in the order of the record's keys
Row(rec) ==
    <<rec["Match Score"], rec["Why? (Matches)"], rec["Warnings"],
      rec["Missing Keywords"], rec["URL"]>>

\* no filter against the history
DedupeNoFilter(raw, hist) == raw

\* new_links = [link for link in raw_links if link not in history]
Dedupe(raw, hist) == SelectSeq(raw, LAMBDA link : link \notin hist)

\* no early return: fall through to save_history
NoNewLinksSaves == <<"SaveHistory", "Done">>

\* `if not new_links: ... return`: the positions main() still goes through
NoNewLinksNext == <<"Done">>

\* the link is recorded only when the analysis produced a record
HistoryAddIfData(hist, link, data) == IF data # <<>> THEN hist \cup {link} ELSE hist

\* history.add(link), whatever analyze_job returned
HistoryAdd(hist, link, data) == hist \cup {link}

\* the threshold off by one: a zero score is retained too
RetainNonNegative(data) == data # <<>> /\ data[1]["Match Score"] >= 0

\* `if data and data['Match Score'] > 0`
Retain(data) == data # <<>> /\ data[1]["Match Score"] > 0

\* a query that raises ends the search
AfterSearchErrorAbort(q) == NumQueries

\* the query after one that raised: the loops go on
AfterSearchError(q) == q + 1

\* ------------------------------------------------------------------ state
VARIABLES
    history_file,    \* job_history.json on disk
    warning_policy,  \* the warning policy the configuration asks for
    run,             \* number of the current run of main()
    pc,              \* the orchestrator's position in main()
    history,         \* main: history
    links,           \* find_jobs: links
    qi,              \* find_jobs: number of (role, site) queries finished
    raw_links,       \* main: raw_links
    new_links,       \* main: new_links
    idx,             \* main: number of new_links analysed so far
    analyzed_jobs,   \* main: analyzed_jobs
    report,          \* the report file this run wrote, if any
    mail,            \* send_email in this run: called, credentials found, outcome
    \* history variables, which the program does not read
    path,            \* the positions this run went through
    file_at_load,    \* the history file as this run found it
    loaded,          \* what load_history returned to this run
    persisted,       \* every URL save_history has written so far
    query_count,     \* find_jobs: how often each query was submitted
    ok_union,        \* find_jobs: URLs returned by the queries that succeeded
    search_failed,   \* some query of this run raised
    add_count,       \* how often history.add was called on each URL, this run
    returned,        \* what analyze_job returned, in call order
    stale_links,     \* links whose page text held a stale keyword
    first_error,     \* find_jobs: number of the first query that raised, or 0
    last             \* one call of analyze_job on its own: input and result

vars == <<history_file, warning_policy, run, pc, history, links, qi, raw_links,
          new_links, idx, analyzed_jobs, report, mail, path, file_at_load,
          loaded, persisted, query_count, ok_union, search_failed,
          add_count, returned, stale_links, first_error, last>>

NoCall ==
    [called |-> FALSE, url |-> 1, resp |-> [kind |-> "error", text |-> <<>>],
     data |-> <<>>]
NoReport == [written |-> FALSE, rows |-> <<>>]
NotCalled == [called |-> FALSE, creds |-> FALSE, outcome |-> "none"]

\* the (role, site) pair of the q-th query, roles in the outer loop
RoleOf(q) == ((q - 1) \div NumSites) + 1
SiteOf(q) == ((q - 1) % NumSites) + 1

\* the locals of main() and find_jobs() before a run
RunLocals ==
    /\ history = {}
    /\ links = {}
    /\ qi = 0
    /\ raw_links = <<>>
    /\ new_links = <<>>
    /\ idx = 0
    /\ analyzed_jobs = <<>>
    /\ report = NoReport
    /\ mail = NotCalled
    /\ path = <<"LoadHistory">>
    /\ loaded = {}
    /\ query_count = [q \in 1..NumQueries |-> 0]
    /\ ok_union = {}
    /\ search_failed = FALSE
    /\ add_count = [u \in URLs |-> 0]
    /\ returned = <<>>
    /\ stale_links = {}
    /\ first_error = 0

Init ==
    /\ history_file \in InitialFiles
    /\ warning_policy = "tag_only"
    /\ run = 1
    /\ pc = "LoadHistory"
    /\ file_at_load = history_file
    /\ persisted = {}
    /\ last = NoCall
    /\ RunLocals

\* main() moves on through the given positions and stops at the last
Goto(steps) == pc' = steps[Len(steps)] /\ path' = path \o steps

\* ---------------------------------------------------------------- actions
\* history = load_history()
LoadHistory ==
    /\ pc = "LoadHistory"
    /\ history' = load_history(history_file)
    /\ loaded' = load_history(history_file)
    /\ Goto(<<"Search">>)
    /\ UNCHANGED <<history_file, warning_policy, run, links, qi, raw_links,
                   new_links, idx, analyzed_jobs, report, mail, file_at_load,
                   persisted, query_count, ok_union, search_failed, add_count,
                   returned, stale_links, first_error, last>>

\* find_jobs: one query answers (possibly with nothing); its hrefs are added
SearchQueryOk ==
    /\ pc = "Search"
    /\ qi < NumQueries
    /\ \E results \in {R \in SUBSET URLs : Cardinality(R) <= max_results_per_query} :
          /\ links' = links \cup results
          /\ ok_union' = ok_union \cup results
    /\ qi' = qi + 1
    /\ query_count' = [query_count EXCEPT ![qi + 1] = @ + 1]
    /\ UNCHANGED <<history_file, warning_policy, run, pc, history, raw_links,
                   new_links, idx, analyzed_jobs, report, mail, path,
                   file_at_load, loaded, persisted, search_failed, add_count,
                   returned, stale_links, first_error, last>>

\* find_jobs: one query raises; the exception is caught inside the loop
SearchQueryError ==
    /\ pc = "Search"
    /\ qi < NumQueries
    /\ qi' = AfterSearchError(qi)
    /\ query_count' = [query_count EXCEPT ![qi + 1] = @ + 1]
    /\ search_failed' = TRUE
    /\ first_error' = IF first_error = 0 THEN qi + 1 ELSE first_error
    /\ UNCHANGED <<history_file, warning_policy, run, pc, history, links,
                   raw_links, new_links, idx, analyzed_jobs, report, mail,
                   path, file_at_load, loaded, persisted, ok_union, add_count,
                   returned, stale_links, last>>

\* find_jobs returns list(links), in whatever order the set yields
FindJobsReturn ==
    /\ pc = "Search"
    /\ qi >= NumQueries
    /\ raw_links' \in SetToSeqs(links)
    /\ Goto(<<"Dedup">>)
    /\ UNCHANGED <<history_file, warning_policy, run, history, links, qi,
                   new_links, idx, analyzed_jobs, report, mail, file_at_load,
                   loaded, persisted, query_count, ok_union, search_failed,
                   add_count, returned, stale_links, first_error, last>>

\* the filter against history, and the early return when nothing is new
Dedup ==
    /\ pc = "Dedup"
    /\ new_links' = Dedupe(raw_links, history)
    /\ IF Dedupe(raw_links, history) = <<>>
       THEN /\ Goto(NoNewLinksNext)
            /\ IF "SaveHistory" \in Range(NoNewLinksNext)
               THEN /\ history_file' = save_history(history)
                    /\ persisted' = persisted \cup history
               ELSE UNCHANGED <<history_file, persisted>>
       ELSE /\ Goto(<<"AnalyzeEach">>)
            /\ UNCHANGED <<history_file, persisted>>
    /\ first_error' = 0
    /\ UNCHANGED <<warning_policy, run, history, links, qi, raw_links, idx,
                   analyzed_jobs, report, mail, file_at_load, loaded,
                   query_count, ok_union, search_failed, add_count, returned,
                   stale_links, last>>

\* one turn of `for link in new_links`, given the answer to the fetch
AnalyzeLink(resp) ==
    /\ LET link == new_links[idx + 1]
           res == analyze_job(link, resp)
       IN  IF res.raised
           THEN /\ Goto(<<"Crashed">>)
                /\ UNCHANGED <<history, add_count, analyzed_jobs, idx, returned,
                               stale_links>>
           ELSE /\ history' = HistoryAdd(history, link, res.data)
                /\ add_count' = [add_count EXCEPT ![link] =
                                    IF link \in HistoryAdd(history, link, res.data)
                                    THEN @ + 1 ELSE @]
                /\ analyzed_jobs' = IF Retain(res.data)
                                    THEN Append(analyzed_jobs, res.data[1])
                                    ELSE analyzed_jobs
                /\ idx' = idx + 1
                /\ returned' = Append(returned, res.data)
                /\ stale_links' = IF resp.kind = "page" /\ IsStale(Lower(resp.text))
                                  THEN stale_links \cup {link} ELSE stale_links
                /\ UNCHANGED <<pc, path>>
    /\ UNCHANGED <<history_file, warning_policy, run, links, qi, raw_links,
                   new_links, report, mail, file_at_load, loaded, persisted,
                   query_count, ok_union, search_failed, first_error, last>>

\* the fetch or the parse raises, or the status is not 200
AnalyzeFetchFails ==
    /\ pc = "AnalyzeEach"
    /\ idx < Len(new_links)
    /\ \E resp \in {r \in Responses : r.kind # "page"} : AnalyzeLink(resp)

\* the page is fetched and scored
AnalyzePage ==
    /\ pc = "AnalyzeEach"
    /\ idx < Len(new_links)
    /\ \E text \in PageKinds : AnalyzeLink([kind |-> "page", text |-> text])

\* the loop is over and analyzed_jobs is not empty: the in-place sort and the
\* CSV file, up to the call of send_email
WriteReport ==
    /\ pc = "AnalyzeEach"
    /\ idx >= Len(new_links)
    /\ analyzed_jobs # <<>>
    /\ analyzed_jobs' = SortByScoreDesc(analyzed_jobs)
    /\ report' = [written |-> TRUE,
                  rows |-> [i \in 1..Len(analyzed_jobs) |->
                               Row(SortByScoreDesc(analyzed_jobs)[i])]]
    /\ Goto(<<"WriteReport", "Notify">>)
    /\ UNCHANGED <<history_file, warning_policy, run, history, links, qi,
                   raw_links, new_links, idx, mail, file_at_load, loaded,
                   persisted, query_count, ok_union, search_failed, add_count,
                   returned, stale_links, first_error, last>>

\* the loop is over and analyzed_jobs is empty: straight to
\* save_history(history)
NoMatches ==
    /\ pc = "AnalyzeEach"
    /\ idx >= Len(new_links)
    /\ analyzed_jobs = <<>>
    /\ history_file' = save_history(history)
    /\ persisted' = persisted \cup history
    /\ Goto(<<"SaveHistory", "Done">>)
    /\ UNCHANGED <<warning_policy, run, history, links, qi, raw_links,
                   new_links, idx, analyzed_jobs, report, mail, file_at_load,
                   loaded, query_count, ok_union, search_failed, add_count,
                   returned, stale_links, first_error, last>>

\* send_email(analyzed_jobs, filename) under the environment it finds and,
\* when it returns, save_history(history)
Notify ==
    /\ pc = "Notify"
    /\ \E env \in Envs, smtp_ok \in BOOLEAN :
          /\ mail' = [called |-> TRUE, creds |-> env.sender /\ env.password,
                      outcome |-> send_email(env, smtp_ok)]
          /\ IF send_email(env, smtp_ok) = "raised"
             THEN /\ Goto(<<"Crashed">>)
                  /\ UNCHANGED <<history_file, persisted>>
             ELSE /\ history_file' = save_history(history)
                  /\ persisted' = persisted \cup history
                  /\ Goto(<<"SaveHistory", "Done">>)
    /\ UNCHANGED <<warning_policy, run, history, links, qi, raw_links,
                   new_links, idx, analyzed_jobs, report, file_at_load, loaded,
                   query_count, ok_union, search_failed, add_count, returned,
                   stale_links, first_error, last>>

\* the script is started again (the next scheduled run)
StartRun ==
    /\ pc = "Done"
    /\ run < MaxRuns
    /\ run' = run + 1
    /\ pc' = "LoadHistory"
    /\ file_at_load' = history_file
    /\ history' = {}
    /\ links' = {}
    /\ qi' = 0
    /\ raw_links' = <<>>
    /\ new_links' = <<>>
    /\ idx' = 0
    /\ analyzed_jobs' = <<>>
    /\ report' = NoReport
    /\ mail' = NotCalled
    /\ path' = <<"LoadHistory">>
    /\ loaded' = {}
    /\ query_count' = [q \in 1..NumQueries |-> 0]
    /\ ok_union' = {}
    /\ search_failed' = FALSE
    /\ add_count' = [u \in URLs |-> 0]
    /\ returned' = <<>>
    /\ stale_links' = {}
    /\ first_error' = 0
    /\ UNCHANGED <<history_file, warning_policy, persisted, last>>

Next ==
    \/ LoadHistory
    \/ SearchQueryOk
    \/ SearchQueryError
    \/ FindJobsReturn
    \/ Dedup
    \/ AnalyzeFetchFails
    \/ AnalyzePage
    \/ WriteReport
    \/ NoMatches
    \/ Notify
    \/ StartRun

Spec == Init /\ [][Next]_vars

\* main() is sequential code: whatever step is next is eventually taken
FairSpec == Spec /\ WF_vars(Next)

\* ------------------------------------------------- analyze_job on its own
\* One call of analyze_job on any URL and any response, under either
\* warning policy a configuration could ask for.
AnalyzeInit ==
    /\ history_file \in InitialFiles
    /\ warning_policy \in WarningPolicies
    /\ run = 1
    /\ pc = "LoadHistory"
    /\ file_at_load = history_file
    /\ persisted = {}
    /\ \E u \in URLs, r \in Responses :
          last = [called |-> FALSE, url |-> u, resp |-> r, data |-> <<>>]
    /\ RunLocals

CallAnalyze ==
    /\ ~last.called
    /\ ~analyze_job(last.url, last.resp).raised
    /\ last' = [last EXCEPT !.called = TRUE,
                            !.data = analyze_job(last.url, last.resp).data]
    /\ UNCHANGED <<history_file, warning_policy, run, pc, history, links, qi,
                   raw_links, new_links, idx, analyzed_jobs, report, mail, path,
                   file_at_load, loaded, persisted, query_count, ok_union,
                   search_failed, add_count, returned, stale_links,
                   first_error>>

AnalyzeNext == CallAnalyze

AnalyzeSpec == AnalyzeInit /\ [][AnalyzeNext]_vars

\* --------------------------------------------------------------- properties
\* the links passed to analyze_job so far in this run
Examined == {new_links[i] : i \in 1..idx}
\* main() is past the dedup step
DedupRan == pc \notin {"LoadHistory", "Search", "Dedup"} /\ Len(path) >= 4
\* the records analyze_job returned with a positive score, in call order
PositiveReturned ==
    SelectSeq(returned, LAMBDA d : d # <<>> /\ d[1]["Match Score"] > 0)
\* position of a URL in the order of discovery
Discovered(url) == CHOOSE i \in 1..Len(new_links) : new_links[i] = url
RowScore(row) == row[1]
RowUrl(row) == row[5]
PathFull ==
    <<"LoadHistory", "Search", "Dedup", "AnalyzeEach", "WriteReport", "Notify",
      "SaveHistory", "Done">>
PathNoPositive == <<"LoadHistory", "Search", "Dedup", "AnalyzeEach", "SaveHistory", "Done">>
PathNoNewSaving == <<"LoadHistory", "Search", "Dedup", "SaveHistory", "Done">>
PathNoNew == <<"LoadHistory", "Search", "Dedup", "Done">>

\* C1: when a run of main() has reached its end, every link that was passed
\* to analyze_job is in the saved history file, whatever analyze_job
\* returned for it, and history.add was called on it exactly once (and on
\* no other URL).
C1_ExaminedLinksPersisted ==
    pc = "Done" =>
        /\ Len(returned) = Len(new_links)
        /\ idx = Len(new_links)
        /\ \A u \in Examined :
              /\ history_file.kind = "json"
              /\ u \in history_file.urls
              /\ add_count[u] = 1
        /\ \A u \in URLs \ Examined : add_count[u] = 0

\* a finished run that examined a link yielding None and a link yielding a
\* record of score 0
C1_Witness ==
    /\ pc = "Done"
    /\ \E i \in 1..Len(returned) : returned[i] = <<>>
    /\ \E i \in 1..Len(returned) :
          returned[i] # <<>> /\ returned[i][1]["Match Score"] = 0

\* C2: the new links are exactly the links find_jobs returned minus the
\* loaded history, no loaded URL is passed to analyze_job, every URL an
\* earlier run persisted is in the loaded history, and so no URL persisted
\* by an earlier run is fetched again.
C2_DedupIsSetDifference ==
    /\ pc \notin {"LoadHistory", "Done"} => persisted \subseteq loaded
    /\ DedupRan =>
          /\ Range(new_links) = Range(raw_links) \ loaded
          /\ Len(new_links) = Cardinality(Range(new_links))
          /\ Examined \cap loaded = {}
          /\ pc # "Done" => Examined \cap persisted = {}

\* a later run that finds a URL an earlier run persisted, next to a new one
\* that it analyses
C2_Witness ==
    /\ run >= 2
    /\ DedupRan
    /\ Range(raw_links) \cap persisted # {}
    /\ idx > 0

\* C3 as stated: with zero new links the run goes LoadHistory -> Search ->
\* Dedup -> SaveHistory -> Done, writes no report, attempts no
\* notification, and saves the history with the loaded contents.
C3_AsStated ==
    (pc = "Done" /\ new_links = <<>>) =>
        /\ path = PathNoNewSaving
        /\ ~report.written
        /\ ~mail.called
        /\ history_file = save_history(loaded)

\* C3 as amended: with zero new links the run goes LoadHistory -> Search ->
\* Dedup -> Done, writes no report, attempts no notification, does not
\* execute save_history, and leaves the history file as it found it.
C3_NoNewLinksReturnsEarly ==
    (pc = "Done" /\ new_links = <<>>) =>
        /\ path = PathNoNew
        /\ ~report.written
        /\ ~mail.called
        /\ history_file = file_at_load
        /\ (history_file.kind = "json" => history_file.urls = loaded)

\* a run that found links, all of them already in the history
C3_Witness ==
    /\ pc = "Done"
    /\ new_links = <<>>
    /\ raw_links # <<>>
    /\ loaded # {}

\* C4: the rows of the report are exactly the records analyze_job returned
\* with a score above 0 (none for a None or a zero-score result), and once
\* the run is over the report was written, and send_email called, if and
\* only if there was such a record.
C4_ReportIsPositiveRecords ==
    /\ report.written =>
          /\ Len(report.rows) = Len(PositiveReturned)
          /\ Range(report.rows) = {Row(d[1]) : d \in Range(PositiveReturned)}
    /\ ~report.written => report.rows = <<>>
    /\ mail.called => report.written
    /\ pc = "Done" /\ DedupRan =>
          /\ report.written <=> PositiveReturned # <<>>
          /\ mail.called <=> PositiveReturned # <<>>

\* a finished run with a report, in which one link gave a zero-score record
C4_Witness ==
    /\ pc = "Done"
    /\ report.written
    /\ \E i \in 1..Len(returned) :
          returned[i] # <<>> /\ returned[i][1]["Match Score"] = 0

\* C5: the rows of a written report are a permutation of the retained
\* records, in descending order of score, and rows of equal score are in
\* the order in which their links were discovered.
C5_ReportSortedStable ==
    report.written =>
        /\ Len(report.rows) = Len(PositiveReturned)
        /\ \A d \in Range(PositiveReturned) :
              Cardinality({i \in 1..Len(report.rows) : report.rows[i] = Row(d[1])}) = 1
        /\ \A i, j \in 1..Len(report.rows) :
              i < j =>
                 /\ RowScore(report.rows[i]) >= RowScore(report.rows[j])
                 /\ RowScore(report.rows[i]) = RowScore(report.rows[j])
                       => Discovered(RowUrl(report.rows[i]))
                             < Discovered(RowUrl(report.rows[j]))

\* a report of two rows with the same score
C5_Witness ==
    /\ report.written
    /\ Len(report.rows) >= 2
    /\ RowScore(report.rows[1]) = RowScore(report.rows[2])

\* the labels with a synonym in the text, and the warning keywords in it
MatchedLabels(text) == {l \in Range(CoreLabels) : Matched(text, l)}
WarningsFound(text) == {w \in Range(warning_skills) : Contains(text, w)}

\* length of n items joined with a separator
JoinedLen(n) == IF n = 0 THEN 0 ELSE 2 * n - 1

\* every label is listed in exactly one of matched and missing
LabelsPartitioned(rec, text) ==
    /\ Items(rec["Why? (Matches)"], ", ") = MatchedLabels(text)
    /\ Items(rec["Missing Keywords"], ", ") = Range(CoreLabels) \ MatchedLabels(text)
    /\ Len(rec["Why? (Matches)"]) = JoinedLen(Cardinality(MatchedLabels(text)))
    /\ Len(rec["Missing Keywords"])
          = JoinedLen(Len(CoreLabels) - Cardinality(MatchedLabels(text)))

\* the example of the claim: a text holding only "g"
GcpOnlyExample(rec, text) ==
    text = <<"g">> =>
        /\ rec["Match Score"] = 2
        /\ rec["Why? (Matches)"] = <<"GCP">>
        /\ rec["Missing Keywords"] = <<"Terraform">>

\* C6 as stated: the score of a record is 2 x the number of matched labels,
\* minus 5 per warning keyword found when the configuration asks for the
\* penalize policy and unchanged when it asks for tag-only; every label is
\* in exactly one of matched and missing.
C6_AsStated ==
    (last.called /\ last.data # <<>>) =>
        LET rec == last.data[1]
            text == Lower(last.resp.text)
        IN  /\ rec["Match Score"] =
                  2 * Cardinality(MatchedLabels(text))
                  - (IF warning_policy = "penalize"
                     THEN 5 * Cardinality(WarningsFound(text)) ELSE 0)
            /\ LabelsPartitioned(rec, text)
            /\ GcpOnlyExample(rec, text)

\* C6 as amended: the score of a record is 2 x the number of matched labels
\* whatever warning policy the configuration asks for; warning keywords
\* found are listed and never change the score; every label is in exactly
\* one of matched and missing.
C6_ScoreIsTwicePerMatch ==
    (last.called /\ last.data # <<>>) =>
        LET rec == last.data[1]
            text == Lower(last.resp.text)
        IN  /\ rec["Match Score"] = 2 * Cardinality(MatchedLabels(text))
            /\ Items(rec["Warnings"], ", ") = WarningsFound(text)
            /\ LabelsPartitioned(rec, text)
            /\ GcpOnlyExample(rec, text)
            /\ rec["URL"] = last.url

\* a record with a match and a warning, under a configuration asking for
\* the penalize policy
C6_Witness ==
    /\ last.called
    /\ last.data # <<>>
    /\ warning_policy = "penalize"
    /\ last.data[1]["Match Score"] > 0
    /\ last.data[1]["Warnings"] # <<>>

\* C7: a link whose page text holds a stale keyword gets None from
\* analyze_job, is never among the retained records or the report rows,
\* and is in the history, and in the saved history once the run is over.
C7_StaleNeverReported ==
    \A u \in stale_links :
        /\ u \in Examined
        /\ returned[Discovered(u)] = <<>>
        /\ \A i \in 1..Len(analyzed_jobs) : analyzed_jobs[i]["URL"] # u
        /\ \A i \in 1..Len(report.rows) : RowUrl(report.rows[i]) # u
        /\ u \in history
        /\ pc = "Done" => history_file.kind = "json" /\ u \in history_file.urls

\* among the stale pages the orchestrator is run on, some match a core skill
SomeStalePageScores ==
    \E t \in PageKinds :
        IsStale(Lower(t)) /\ JobRecord(1, Lower(t))["Match Score"] > 0

\* a finished run with a report, one of whose links was stale; every stale
\* page, matching core skills or not, leads to this state
C7_Witness ==
    /\ pc = "Done"
    /\ report.written
    /\ stale_links # {}
    /\ SomeStalePageScores

\* the number of the query for a (role, site) pair
QueryOf(r, t) == CHOOSE q \in 1..NumQueries : RoleOf(q) = r /\ SiteOf(q) = t
\* the loops visit every pair of the cross product once
PairsVisitedOnce ==
    \A r \in 1..NumRoles, t \in 1..NumSites :
        Cardinality({q \in 1..NumQueries : RoleOf(q) = r /\ SiteOf(q) = t}) = 1
Pairs == {QueryOf(r, t) : r \in 1..NumRoles, t \in 1..NumSites}

\* C8: once find_jobs has returned, every (role, site) pair was queried
\* exactly once, whichever queries raised, and the list returned holds the
\* URLs answered by the queries that succeeded, each once.
C8_EveryPairQueriedOnce ==
    /\ PairsVisitedOnce
    /\ \A q \in Pairs : query_count[q] <= 1
    /\ pc \notin {"LoadHistory", "Search"} =>
          /\ \A q \in Pairs : query_count[q] = 1
          /\ Range(raw_links) = ok_union
          /\ Len(raw_links) = Cardinality(ok_union)

\* find_jobs has returned every URL although its very first query raised
C8_Witness ==
    /\ pc = "Dedup"
    /\ first_error = 1
    /\ Range(raw_links) = URLs

\* C9: no outcome of send_email stops the run: after it the report is still
\* there and save_history runs with every examined link; missing
\* credentials mean "skipped" and nothing else does; a failed transmission
\* is caught.
C9_NotifyNeverBlocksSave ==
    /\ pc # "Crashed"
    /\ mail.called =>
          /\ mail.outcome \in {"skipped", "sent", "failed"}
          /\ mail.outcome = "skipped" <=> ~mail.creds
          /\ report.written /\ report.rows # <<>>
          /\ pc = "Done"
    /\ (mail.called /\ pc = "Done") =>
          /\ path = PathFull
          /\ history_file = save_history(history)
          /\ Examined = Range(new_links)
          /\ Examined \subseteq history_file.urls

\* a finished run whose transmission failed
C9_Witness ==
    /\ pc = "Done"
    /\ mail.called
    /\ mail.outcome = "failed"

\* C10 as stated, the paths: a finished run went through one of
\* ... -> AnalyzeEach -> WriteReport -> Notify -> SaveHistory -> Done,
\* ... -> Dedup -> SaveHistory -> Done, ... -> AnalyzeEach -> SaveHistory -> Done.
C10_AsStated ==
    pc = "Done" => path \in {PathFull, PathNoNewSaving, PathNoPositive}

\* the paths of the code: the run without new links ends right after Dedup
C10_Paths ==
    /\ pc # "Crashed"
    /\ pc = "Done" => path \in {PathFull, PathNoNew, PathNoPositive}

\* C10 as amended: every run that starts reaches Done, whatever fails on the
\* way, along one of the three paths, of which the one without new links
\* is LoadHistory -> Search -> Dedup -> Done.
C10_EveryRunTerminates ==
    /\ []C10_Paths
    /\ (pc = "LoadHistory") ~> (pc = "Done")

\* a finished run in which a query raised, a fetch failed and the
\* transmission failed
C10_Witness ==
    /\ pc = "Done"
    /\ search_failed
    /\ \E i \in 1..Len(returned) :
          returned[i] = <<>> /\ new_links[i] \notin stale_links
    /\ mail.outcome = "failed"

====
